---- MODULE Spec2Model ----
(***************************************************************************)
(* A model of zerotier-gui-windows.py: the history file and the in-memory  *)
(* network_history, the queries to zerotier-cli, the network table, the   *)
(* join window(s) and the handlers bound to the buttons.                   *)
(*                                                                         *)
(* Every handler is one action.  A handler is a sequence of statements    *)
(* that may call the CLI several times and may be cut short by a Python   *)
(* exception; it is modelled as an operator from the handler's state S to *)
(* the SET of states it can end in (one per combination of CLI results),  *)
(* S.exc naming the exception that ended it ("none" when it returned).    *)
(***************************************************************************)
EXTENDS Integers, Sequences, FiniteSets, TLC

VARIABLES
    phase,            \* "off" | "running" | "crashed": the process
                      \* ("loaded": the history store alone, no window)
    file,             \* the history file: [exists, text], text a token sequence
    fmt,              \* the shape of the records zerotier-cli prints
    networks,         \* the service: id -> "absent" | "unconfigured" | "configured"
    network_history,  \* self.network_history: id -> [name, join_date]
    networkList,      \* rows of self.networkList: <<id, name, status>>
    joinWin,          \* the join windows: w -> [open, rows]
    peers,            \* the service: the peers it lists, in order
    peersWin,         \* the peers window: [open, rows]
    pathsWin,         \* the peer paths window: [open, peerId, idx, rows]
    last              \* what the last handler did: [op, arg, cmds, msgs, exc]

vars == <<phase, file, fmt, networks, network_history, networkList, joinWin,
          peers, peersWin, pathsWin, last>>

-----------------------------------------------------------------------------
(* Values *)

\* Python None, JSON null
None == "<None>"

\* The networks of the model, in the order the service lists them.
IdSeq == <<"8056c2e21c000001", "a09acf0233e1b2c3">>
Ids == {IdSeq[i] : i \in 1..Len(IdSeq)}

\* The name the controller gives a network once its configuration arrived.
NameOf(id) == IF id = IdSeq[1] THEN "earth" ELSE "office"

\* What the user may type in the Network ID entry.
EntryTexts == Ids \cup {"", "not-a-network"}

\* datetime.now(), as formatted at line 406, at the moments a join is
\* recorded: the first NumDates of these.
NumDates == 1
DatePool == <<"2026/11/04 10:00", "2026/11/04 10:01", "2026/11/04 10:02">>
Dates == {DatePool[i] : i \in 1..NumDates}

\* The join date of the entries already in the history file at the start.
OldDate == "2026/11/03 09:00"

\* The join windows that can be open at once.
MaxWindows == 2
Wins == 1..MaxWindows

\* Shapes of the list-networks records: with or without the nwid field, and
\* how a network without a name is printed ("" | null | no name field).
Formats ==
    { [nwid |-> TRUE,  noname |-> "empty"],
      [nwid |-> FALSE, noname |-> "empty"],
      [nwid |-> TRUE,  noname |-> "null"],
      [nwid |-> TRUE,  noname |-> "absent"] }

EmptyHistory == [k \in {} |-> [name |-> "", join_date |-> ""]]

-----------------------------------------------------------------------------
(* The history file: JSON text as a sequence of tokens *)

Q(s) == [q |-> TRUE, s |-> s]      \* a quoted string
B(s) == [q |-> FALSE, s |-> s]     \* a bare token: { } null or garbage

\* json.dump writing None as the string "None"
NameTokenAsText(name) == IF name = None THEN Q("None") ELSE Q(name)

NameToken(name) == IF name = None THEN B("null") ELSE Q(name)

RECURSIVE DumpEntries(_, _)
DumpEntries(h, i) ==
    IF i > Len(IdSeq) THEN <<>>
    ELSE (IF IdSeq[i] \in DOMAIN h
            THEN <<Q(IdSeq[i]), NameToken(h[IdSeq[i]].name), Q(h[IdSeq[i]].join_date)>>
            ELSE <<>>) \o DumpEntries(h, i + 1)

\* json.dump(self.network_history, f): { "id" name "date" ... }
json_dump(h) == <<B("{")>> \o DumpEntries(h, 1) \o <<B("}")>>

TokenName(t) == IF t.q THEN t.s ELSE None

WellFormed(text) ==
    /\ Len(text) >= 2
    /\ text[1] = B("{")
    /\ text[Len(text)] = B("}")
    /\ (Len(text) - 2) % 3 = 0
    /\ \A j \in 0..((Len(text) - 2) \div 3 - 1) :
          /\ text[3 * j + 2].q
          /\ text[3 * j + 3].q \/ text[3 * j + 3] = B("null")
          /\ text[3 * j + 4].q

\* The entry of key k: the last one of the text (a later duplicate wins).
EntryOf(text, k) ==
    LET js == {j \in 0..((Len(text) - 2) \div 3 - 1) : text[3 * j + 2].s = k}
        j == CHOOSE x \in js : \A y \in js : y <= x
    IN [name |-> TokenName(text[3 * j + 3]), join_date |-> text[3 * j + 4].s]

\* json.load(f): the mapping, or JSONDecodeError
json_load(text) ==
    IF WellFormed(text)
      THEN LET keys == {text[3 * j + 2].s : j \in 0..((Len(text) - 2) \div 3 - 1)}
           IN [ok |-> TRUE, val |-> [k \in keys |-> EntryOf(text, k)]]
      ELSE [ok |-> FALSE, val |-> EmptyHistory]

\* load_network_history without its `except JSONDecodeError`
load_network_history_no_except(f) ==
    LET f1 == IF f.exists THEN f ELSE [exists |-> TRUE, text |-> <<>>]
        d == json_load(f1.text)
    IN [file |-> f1, history |-> IF d.ok THEN d.val ELSE EmptyHistory,
        exc |-> IF d.ok THEN "none" ELSE "JSONDecodeError"]

\* load_network_history: the file is created empty if absent; a text that
\* does not parse gives {} (except JSONDecodeError).
load_network_history(f) ==
    LET f1 == IF f.exists THEN f ELSE [exists |-> TRUE, text |-> <<>>]
        d == json_load(f1.text)
    IN [file |-> f1, history |-> IF d.ok THEN d.val ELSE EmptyHistory, exc |-> "none"]

\* The files the program may find at its first start.
InitialHistories ==
    { EmptyHistory,
      [k \in {IdSeq[1]} |-> [name |-> NameOf(k), join_date |-> OldDate]],
      [k \in Ids |-> [name |-> IF k = IdSeq[1] THEN NameOf(k) ELSE "", join_date |-> OldDate]] }

InitialFiles ==
    { [exists |-> FALSE, text |-> <<>>],
      [exists |-> TRUE, text |-> <<>>],
      [exists |-> TRUE, text |-> <<B("{"), Q(IdSeq[1])>>],
      [exists |-> TRUE, text |-> <<B("oops")>>] }
    \cup {[exists |-> TRUE, text |-> json_dump(h)] : h \in InitialHistories}

\* The files of the store alone: the texts of at most MaxEntries entries,
\* a key twice and null names included, and what is no JSON mapping.
MaxEntries == 2

StoreEntries ==
    { <<Q(id), n, Q(d)>> :
        id \in Ids, n \in {B("null"), Q(""), Q(NameOf(IdSeq[1]))},
        d \in {OldDate, DatePool[1]} }

RECURSIVE EntryTexts2(_)
EntryTexts2(n) ==
    IF n = 0 THEN {<<>>}
    ELSE LET shorter == EntryTexts2(n - 1)
         IN shorter \cup {t \o e : t \in {x \in shorter : Len(x) = 3 * (n - 1)},
                                    e \in StoreEntries}

StoreFiles ==
    { [exists |-> FALSE, text |-> <<>>],
      [exists |-> TRUE, text |-> <<>>],
      [exists |-> TRUE, text |-> <<B("{"), Q(IdSeq[1])>>],
      [exists |-> TRUE, text |-> <<B("oops")>>] }
    \cup {[exists |-> TRUE, text |-> <<B("{")>> \o t \o <<B("}")>>] : t \in EntryTexts2(MaxEntries)}

-----------------------------------------------------------------------------
(* zerotier-cli *)

\* One record of `zerotier-cli -j listnetworks` for network id in state st.
NetworkRecord(id, st) ==
    LET keys == {"id", "status"}
                \cup (IF fmt.nwid THEN {"nwid"} ELSE {})
                \cup (IF st = "unconfigured" /\ fmt.noname = "absent" THEN {} ELSE {"name"})
    IN [k \in keys |->
          CASE k = "id" -> id
            [] k = "nwid" -> id
            [] k = "status" -> IF st = "configured" THEN "OK" ELSE "REQUESTING_CONFIGURATION"
            [] OTHER -> IF st = "configured" THEN NameOf(id)
                        ELSE IF fmt.noname = "null" THEN None ELSE ""]

\* The peers the service may know (`zerotier-cli -j peers` prints one record
\* for each), and the lists of at most NumPeers of them it may print.
NumPeers == 2
PeerPool ==
    << [address |-> "62f865ae71", version |-> "-1.-1.-1", role |-> "PLANET", latency |-> 120,
        paths |-> <<"50.7.252.138/9993">>],
       [address |-> "778cde7190", version |-> "1.12.2", role |-> "LEAF", latency |-> -1,
        paths |-> <<>>],
       [address |-> "cafe04eba9", version |-> "1.14.0", role |-> "LEAF", latency |-> 35,
        paths |-> <<"84.17.53.155/9993", "103.195.103.66/9993">>] >>

PeerLists ==
    { l \in UNION {[1..n -> 1..Len(PeerPool)] : n \in 0..NumPeers} :
        \A i, j \in DOMAIN l : i # j => l[i] # l[j] }

PeerRecords(l) == [i \in DOMAIN l |-> PeerPool[l[i]]]

RECURSIVE Payload(_, _)
Payload(nets, i) ==
    IF i > Len(IdSeq) THEN <<>>
    ELSE (IF nets[IdSeq[i]] # "absent"
            THEN <<NetworkRecord(IdSeq[i], nets[IdSeq[i]])>>
            ELSE <<>>) \o Payload(nets, i + 1)

\* What a query can end with: exit code 0 and the JSON text, exit code 0 and
\* nothing or something that is no JSON, or a non-zero exit code.
Outcomes == {"ok", "empty", "malformed", "nonzero"}
CommandOutcomes == {"ok", "nonzero"}

\* The text on stdout.
Stdout(out, value) ==
    CASE out = "ok" -> [kind |-> "json", value |-> value]
      [] out = "empty" -> [kind |-> "empty", value |-> <<>>]
      [] OTHER -> [kind |-> "garbage", value |-> <<>>]

\* json.loads(output.decode())
json_loads(text) ==
    IF text.kind = "json" THEN [ok |-> TRUE, val |-> text.value]
    ELSE [ok |-> FALSE, val |-> <<>>]

\* How a call ended, as the log keeps it.
Res(out) == IF out \in {"empty", "malformed"} THEN "undecodable" ELSE out

-----------------------------------------------------------------------------
(* The state of a running handler *)

NoArg == [id |-> "", sel |-> "", answer |-> FALSE, date |-> "", win |-> 0]

Idle == [op |-> "none", arg |-> NoArg, cmds |-> <<>>, msgs |-> <<>>, exc |-> "none"]

Enter ==
    [h |-> network_history, nets |-> networks, rows |-> networkList, jw |-> joinWin,
     pw |-> peersWin, paw |-> pathsWin, cmds |-> <<>>, msgs |-> <<>>, exc |-> "none",
     data |-> <<>>, flag |-> FALSE, name |-> None]

\* Statement sequencing: F runs in every state SS ends in without an exception.
Bind(SS, F(_)) == UNION {IF s.exc = "none" THEN F(s) ELSE {s} : s \in SS}

Raise(S, e) == [S EXCEPT !.exc = e]
Show(S, m) == [S EXCEPT !.msgs = Append(@, m)]
Ran(S, cmd, arg, out) == [S EXCEPT !.cmds = Append(@, <<cmd, arg, Res(out)>>)]

ErrorBox == "Erreur lors de l'execution de la commande"
AlreadyMember == "You're already a member of this network."
JoinedMsg == "Successfully joined network"
InvalidId == "Invalid network ID"
NoSelection == "No network selected"
LeftMsg == "Successfully left network"
LeaveError == "Error"
UnknownName == "Unknown Name"

\* get_networks_info: the decoded list, {} after a non-zero exit (and an
\* error box), JSONDecodeError when the text does not decode.
get_networks_info(S) ==
    { LET S1 == Ran(S, "listnetworks", "", out)
          d == json_loads(Stdout(out, Payload(S.nets, 1)))
      IN IF out = "nonzero" THEN [Show(S1, ErrorBox) EXCEPT !.data = <<>>]
         ELSE IF d.ok THEN [S1 EXCEPT !.data = d.val]
         ELSE Raise([S1 EXCEPT !.data = <<>>], "JSONDecodeError")
      : out \in Outcomes }

\* get_peers_info: as get_networks_info, for `zerotier-cli -j peers`
get_peers_info(S) ==
    { LET S1 == Ran(S, "peers", "", out)
          d == json_loads(Stdout(out, PeerRecords(peers)))
      IN IF out = "nonzero" THEN [Show(S1, ErrorBox) EXCEPT !.data = <<>>]
         ELSE IF d.ok THEN [S1 EXCEPT !.data = d.val]
         ELSE Raise([S1 EXCEPT !.data = <<>>], "JSONDecodeError")
      : out \in Outcomes }

\* What `zerotier-cli status` prints, split in words.
StatusWords(out) ==
    CASE out = "ok" -> <<"200", "info", "62f865ae71", "1.14.0", "ONLINE">>
      [] out = "empty" -> <<>>
      [] OTHER -> <<"oops">>

\* get_status: the words of the output, [] after a non-zero exit
get_status(S) ==
    { LET S1 == Ran(S, "status", "", out)
      IN IF out = "nonzero" THEN [Show(S1, ErrorBox) EXCEPT !.data = <<>>]
         ELSE [S1 EXCEPT !.data = StatusWords(out)]
      : out \in Outcomes }

\* about_window, lines 629-716: the labels read status[2], status[3], status[4]
about_window(S) ==
    Bind(get_status(S), LAMBDA s :
        IF Len(s.data) < 5 THEN {Raise([s EXCEPT !.data = <<>>], "IndexError")}
        ELSE {[s EXCEPT !.data = <<>>]})

\* get_interface_state
get_interface_state(interface) == "UP"

NotAvailable == "Cette fonction n'est pas disponible sur Windows"

\* The command of toggleConnectionButton (line 136): a message, nothing else.
toggleConnectionButton(S) == {Show(S, NotAvailable)}

\* refresh_peers showing the version as the service prints it
PeerRowVerbatim(p) ==
    <<p["address"], p["version"], p["role"], p["latency"]>>

\* refresh_peers, lines 259-262: one row per peer
PeerRow(p) ==
    <<p["address"], IF p["version"] = "-1.-1.-1" THEN "-" ELSE p["version"],
      p["role"], p["latency"]>>

\* refresh_peers
refresh_peers(S) ==
    Bind(get_peers_info([S EXCEPT !.pw.rows = <<>>]), LAMBDA s :
        {[s EXCEPT !.pw.rows = [i \in 1..Len(s.data) |-> PeerRow(s.data[i])],
                   !.data = <<>>]})

\* is_on_network: the loop of lines 414-417 from record i on
RECURSIVE IsOnLoop(_, _, _, _)
IsOnLoop(data, i, currently_joined, network_id) ==
    IF i > Len(data) \/ currently_joined
      THEN [exc |-> "none", val |-> currently_joined]
    ELSE IF "nwid" \notin DOMAIN data[i]
      THEN [exc |-> "KeyError", val |-> FALSE]
    ELSE IsOnLoop(data, i + 1, data[i]["nwid"] = network_id, network_id)

is_on_network(S, network_id) ==
    Bind(get_networks_info(S), LAMBDA s :
        LET r == IsOnLoop(s.data, 1, FALSE, network_id)
        IN {[s EXCEPT !.exc = r.exc, !.flag = r.val, !.data = <<>>]})

\* get_network_name_by_id: the loop of lines 312-314 from record i on
RECURSIVE NameLoop(_, _, _)
NameLoop(data, i, network_id) ==
    IF i > Len(data) THEN [exc |-> "none", val |-> None]
    ELSE IF "nwid" \notin DOMAIN data[i] THEN [exc |-> "KeyError", val |-> None]
    ELSE IF network_id = data[i]["nwid"]
      THEN (IF "name" \in DOMAIN data[i]
              THEN [exc |-> "none", val |-> data[i]["name"]]
              ELSE [exc |-> "KeyError", val |-> None])
    ELSE NameLoop(data, i + 1, network_id)

get_network_name_by_id(S, network_id) ==
    Bind(get_networks_info(S), LAMBDA s :
        LET r == NameLoop(s.data, 1, network_id)
        IN {[s EXCEPT !.exc = r.exc, !.name = r.val, !.data = <<>>]})

\* add_network_to_history
add_network_to_history(S, network_id, join_date) ==
    Bind(get_network_name_by_id(S, network_id), LAMBDA s :
        {[s EXCEPT !.h = [k \in DOMAIN s.h \cup {network_id} |->
                            IF k = network_id
                              THEN [name |-> s.name, join_date |-> join_date]
                              ELSE s.h[k]]]})

\* update_network_history_names forgetting the networks that are not listed
RECURSIVE UpdateLoopPruning(_, _, _)
UpdateLoopPruning(h, data, i) ==
    IF i > Len(data)
      THEN [exc |-> "none",
            h |-> [k \in {x \in DOMAIN h : \E j \in DOMAIN data : data[j]["nwid"] = x} |-> h[k]]]
    ELSE IF "nwid" \notin DOMAIN data[i] \/ "name" \notin DOMAIN data[i]
      THEN [exc |-> "KeyError", h |-> h]
    ELSE UpdateLoopPruning(
           IF data[i]["nwid"] \in DOMAIN h
             THEN [h EXCEPT ![data[i]["nwid"]].name = data[i]["name"]]
             ELSE h,
           data, i + 1)

\* update_network_history_names storing a new entry instead of the name
RECURSIVE UpdateLoopOverwriting(_, _, _)
UpdateLoopOverwriting(h, data, i) ==
    IF i > Len(data) THEN [exc |-> "none", h |-> h]
    ELSE IF "nwid" \notin DOMAIN data[i] \/ "name" \notin DOMAIN data[i]
      THEN [exc |-> "KeyError", h |-> h]
    ELSE UpdateLoopOverwriting(
           IF data[i]["nwid"] \in DOMAIN h
             THEN [h EXCEPT ![data[i]["nwid"]] = [name |-> data[i]["name"], join_date |-> None]]
             ELSE h,
           data, i + 1)

\* update_network_history_names: the loop of lines 297-301 from record i on
RECURSIVE UpdateLoop(_, _, _)
UpdateLoop(h, data, i) ==
    IF i > Len(data) THEN [exc |-> "none", h |-> h]
    ELSE IF "nwid" \notin DOMAIN data[i] \/ "name" \notin DOMAIN data[i]
      THEN [exc |-> "KeyError", h |-> h]
    ELSE UpdateLoop(
           IF data[i]["nwid"] \in DOMAIN h
             THEN [h EXCEPT ![data[i]["nwid"]].name = data[i]["name"]]
             ELSE h,
           data, i + 1)

update_network_history_names(S) ==
    Bind(get_networks_info(S), LAMBDA s :
        LET r == UpdateLoop(s.h, s.data, 1)
        IN {[s EXCEPT !.exc = r.exc, !.h = r.h, !.data = <<>>]})

\* refresh_networks, lines 271-279: the tuples, or KeyError
RECURSIVE NetworkTuples(_, _)
NetworkTuples(networkData, i) ==
    IF i > Len(networkData) THEN [exc |-> "none", val |-> <<>>]
    ELSE IF ~({"id", "name", "status"} \subseteq DOMAIN networkData[i])
      THEN [exc |-> "KeyError", val |-> <<>>]
    ELSE LET rest == NetworkTuples(networkData, i + 1)
         IN [exc |-> rest.exc,
             val |-> IF rest.exc = "none"
                       THEN <<<<networkData[i]["id"], networkData[i]["name"],
                                networkData[i]["status"]>>>> \o rest.val
                       ELSE <<>>]

\* `not networkName`
Falsy(x) == x = "" \/ x = None

\* refresh_networks, lines 281-291: one row per tuple
DisplayRow(t) == <<t[1], IF Falsy(t[2]) THEN UnknownName ELSE t[2], t[3]>>

InsertRows(ts) == [i \in 1..Len(ts) |-> DisplayRow(ts[i])]

\* refresh_networks
refresh_networks(S) ==
    Bind(get_networks_info([S EXCEPT !.rows = <<>>]), LAMBDA s :
        LET t == NetworkTuples(s.data, 1)
        IN IF t.exc # "none" THEN {Raise([s EXCEPT !.data = <<>>], t.exc)}
           ELSE update_network_history_names(
                    [s EXCEPT !.rows = InsertRows(t.val), !.data = <<>>]))

-----------------------------------------------------------------------------
(* The handlers *)

\* The ids in h, in listing order: the rows populate_network_list inserts
\* (their id column).
RECURSIVE HistoryRows(_, _)
HistoryRows(h, i) ==
    IF i > Len(IdSeq) THEN <<>>
    ELSE (IF IdSeq[i] \in DOMAIN h THEN <<IdSeq[i]>> ELSE <<>>) \o HistoryRows(h, i + 1)

ClosedWindow == [open |-> FALSE, rows |-> <<>>]

ClosedPaths == [open |-> FALSE, peerId |-> "", idx |-> 0, rows |-> <<>>]

\* The item ids ttk.Treeview gives the rows it inserts ("I%03X").
ItemIds == <<"I001", "I002", "I003">>

\* What focus() can return for a table of n rows: "" or the id of a row.
Focus(n) == {""} \cup {ItemIds[i] : i \in 1..n}

RowOf(focus) == CHOOSE i \in 1..Len(ItemIds) : ItemIds[i] = focus

\* int(text) for the texts of the model: none of them is a decimal literal.
PyInt(text) ==
    IF text \in {"1", "2"} THEN [exc |-> "none", val |-> IF text = "1" THEN 1 ELSE 2]
    ELSE [exc |-> "ValueError", val |-> 0]

\* check_output([... "zerotier-cli", "join", network_id]): exit code 0 joins
\* the network; the service refuses what is no network id.
JoinCommand(S, network_id) ==
    { Raise(Ran(S, "join", network_id, "nonzero"), "CalledProcessError") }
    \cup
    (IF network_id \in Ids
       THEN { [Ran(S, "join", network_id, "ok") EXCEPT !.nets[network_id] = st]
              : st \in IF S.nets[network_id] = "absent"
                         THEN {"unconfigured", "configured"}
                         ELSE {S.nets[network_id]} }
       ELSE {})

\* check_output([... "zerotier-cli", "leave", network])
LeaveCommand(S, network) ==
    { Raise(Ran(S, "leave", network, "nonzero"), "CalledProcessError") }
    \cup
    (IF network \in Ids
       THEN { [Ran(S, "leave", network, "ok") EXCEPT !.nets[network] = "absent"] }
       ELSE {})

\* except CalledProcessError: the handler goes on with message m
Except(SS, m) ==
    { IF s.exc = "CalledProcessError" THEN Show([s EXCEPT !.exc = "none"], m) ELSE s
      : s \in SS }

\* join_network recording the join before the join command has succeeded
join_network_recording_first(S, network_id, join_date, w) ==
    Bind(is_on_network(S, network_id), LAMBDA s1 :
        IF s1.flag THEN {Show(s1, AlreadyMember)}
        ELSE Except(
               Bind(add_network_to_history(s1, network_id, join_date), LAMBDA s2 :
               Bind(JoinCommand(s2, network_id), LAMBDA s3 :
               Bind(refresh_networks(Show(s3, JoinedMsg)), LAMBDA s4 :
                   {[s4 EXCEPT !.jw[w] = ClosedWindow]}))),
               InvalidId))

\* join_network, lines 421-441, in join window w
join_network(S, network_id, join_date, w) ==
    Bind(is_on_network(S, network_id), LAMBDA s1 :
        IF s1.flag THEN {Show(s1, AlreadyMember)}
        ELSE Except(
               Bind(JoinCommand(s1, network_id), LAMBDA s2 :
               Bind(add_network_to_history(s2, network_id, join_date), LAMBDA s3 :
               Bind(refresh_networks(Show(s3, JoinedMsg)), LAMBDA s4 :
                   {[s4 EXCEPT !.jw[w] = ClosedWindow]}))),
               InvalidId))

\* leave_network, lines 601-627
leave_network(S, focus, answer) ==
    LET n == PyInt(focus)
    IN IF n.exc = "TypeError" THEN {Show(S, NoSelection)}
       ELSE IF n.exc # "none" THEN {Raise(S, n.exc)}
       ELSE IF n.val \notin 1..Len(S.rows) THEN {Raise(S, "TclError")}
       ELSE IF ~answer THEN {S}
       ELSE Bind(Except(LeaveCommand(S, S.rows[n.val][1]), LeaveError), LAMBDA s1 :
                refresh_networks(
                    IF s1.msgs = <<>> THEN Show(s1, LeftMsg) ELSE s1))

\* delete_history_entry, lines 486-491, in join window w
delete_history_entry(S, w, focus) ==
    IF focus = "" THEN {Raise(S, "IndexError")}
    ELSE LET network_id == S.jw[w].rows[RowOf(focus)]
         IN IF network_id \notin DOMAIN S.h THEN {Raise(S, "KeyError")}
            ELSE LET h1 == [k \in DOMAIN S.h \ {network_id} |-> S.h[k]]
                 IN {[S EXCEPT !.h = h1, !.jw[w].rows = HistoryRows(h1, 1)]}

\* see_peers, lines 800-866
see_peers(S) == refresh_peers([S EXCEPT !.pw.open = TRUE])

\* refresh_paths, lines 197-239: the paths of the record at position idInList
\* (counted from 1 here) of a fresh list; a path is shown by its address.
refresh_paths(S, idInList) ==
    Bind(get_peers_info([S EXCEPT !.paw.rows = <<>>]), LAMBDA s :
        IF s.cmds[Len(s.cmds)][3] = "nonzero"
          THEN {Raise([s EXCEPT !.data = <<>>], "KeyError")}
        ELSE IF idInList > Len(s.data)
          THEN {Raise([s EXCEPT !.data = <<>>], "IndexError")}
        ELSE {[s EXCEPT !.paw.rows = s.data[idInList]["paths"], !.data = <<>>]})

\* see_peer_paths, lines 740-746: the position of the first record with
\* that address (counted from 1), 0 for None
RECURSIVE FindPeer(_, _, _)
FindPeer(peers_info, i, peerId) ==
    IF i > Len(peers_info) THEN 0
    ELSE IF peers_info[i]["address"] = peerId THEN i
    ELSE FindPeer(peers_info, i + 1, peerId)

\* see_peer_paths, lines 732-798, with row `selected` of the peers list
see_peer_paths(S, selected) ==
    IF selected = "" THEN {S}
    ELSE LET peerId == S.pw.rows[RowOf(selected)][1]
         IN Bind(get_peers_info(S), LAMBDA s :
                LET idx == FindPeer(s.data, 1, peerId)
                IN IF idx = 0 THEN {[s EXCEPT !.data = <<>>]}
                   ELSE refresh_paths(
                          [s EXCEPT !.data = <<>>,
                                    !.paw = [open |-> TRUE, peerId |-> peerId,
                                             idx |-> idx, rows |-> <<>>]],
                          idx))

-----------------------------------------------------------------------------
(* The actions *)

netVars == <<networks, network_history, networkList, joinWin>>
peerVars == <<peers, peersWin, pathsWin>>

\* Before the program is started.
Off ==
    /\ phase = "off"
    /\ network_history = EmptyHistory
    /\ networkList = <<>>
    /\ joinWin = [w \in Wins |-> ClosedWindow]
    /\ peersWin = ClosedWindow
    /\ pathsWin = ClosedPaths
    /\ last = Idle

\* The file of Spec: the record of one network joined earlier.
SpecFile ==
    [exists |-> TRUE,
     text |-> json_dump([k \in {IdSeq[1]} |-> [name |-> NameOf(k), join_date |-> OldDate]])]

Init ==
    /\ Off
    /\ file = SpecFile
    /\ fmt \in Formats
    /\ networks \in [Ids -> {"absent", "unconfigured", "configured"}]
    /\ peers = <<>>

\* The handler returned or raised in state s.
Commit(op, arg, s) ==
    /\ network_history' = s.h
    /\ networks' = s.nets
    /\ networkList' = s.rows
    /\ joinWin' = s.jw
    /\ peersWin' = s.pw
    /\ pathsWin' = s.paw
    /\ last' = [op |-> op, arg |-> arg, cmds |-> s.cmds, msgs |-> s.msgs, exc |-> s.exc]
    /\ UNCHANGED <<phase, file, fmt, peers>>

\* MainWindow.__init__ (lines 56-172): an exception ends the process.
Start ==
    /\ last = Idle
    /\ phase # "running"
    /\ LET l == load_network_history(file)
       IN \E s \in IF l.exc = "none"
                     THEN refresh_networks([Enter EXCEPT !.h = l.history])
                     ELSE {Raise(Enter, l.exc)} :
            /\ file' = l.file
            /\ phase' = IF s.exc = "none" THEN "running" ELSE "crashed"
            /\ network_history' = IF s.exc = "none" THEN s.h ELSE EmptyHistory
            /\ networkList' = IF s.exc = "none" THEN s.rows ELSE <<>>
            /\ last' = [op |-> "__init__", arg |-> NoArg, cmds |-> s.cmds,
                        msgs |-> s.msgs, exc |-> s.exc]
            /\ UNCHANGED <<fmt, networks, joinWin, peers, peersWin, pathsWin>>

\* on_exit (lines 1028-1030)
Exit ==
    /\ last = Idle
    /\ phase = "running"
    /\ phase' = "off"
    /\ network_history' = EmptyHistory
    /\ networkList' = <<>>
    /\ joinWin' = [w \in Wins |-> ClosedWindow]
    /\ peersWin' = ClosedWindow
    /\ pathsWin' = ClosedPaths
    /\ last' = [Idle EXCEPT !.op = "on_exit"]
    /\ UNCHANGED <<file, fmt, networks, peers>>

\* The handler has returned and its message boxes are closed: Tk waits for
\* the next event (after a crash or an exit, the shell does).
MainLoop ==
    /\ last # Idle
    /\ last' = Idle
    /\ UNCHANGED <<phase, file, fmt, netVars, peerVars>>

\* The "Refresh Networks" button
RefreshNetworks ==
    /\ last = Idle
    /\ phase = "running"
    /\ \E s \in refresh_networks(Enter) : Commit("refresh_networks", NoArg, s)

\* The "Join Network" button: create_join_network_window (lines 420-599)
OpenJoinWindow(w) ==
    /\ last = Idle
    /\ phase = "running"
    /\ ~joinWin[w].open
    /\ joinWin' = [joinWin EXCEPT ![w] = [open |-> TRUE, rows |-> HistoryRows(network_history, 1)]]
    /\ last' = [Idle EXCEPT !.op = "create_join_network_window", !.arg.win = w]
    /\ UNCHANGED <<phase, file, fmt, networks, network_history, networkList, peerVars>>

\* The user closes join window w.
CloseJoinWindow(w) ==
    /\ last = Idle
    /\ phase = "running"
    /\ joinWin[w].open
    /\ joinWin' = [joinWin EXCEPT ![w] = ClosedWindow]
    /\ last' = [Idle EXCEPT !.op = "close_join_window", !.arg.win = w]
    /\ UNCHANGED <<phase, file, fmt, networks, network_history, networkList, peerVars>>

\* The "Join" button of join window w
Join(w) ==
    /\ last = Idle
    /\ phase = "running"
    /\ joinWin[w].open
    /\ \E network_id \in EntryTexts, d \in Dates :
         \E s \in join_network(Enter, network_id, d, w) :
            Commit("join_network", [NoArg EXCEPT !.id = network_id, !.date = d, !.win = w], s)

\* The "Delete history entry" button of join window w
DeleteHistoryEntry(w) ==
    /\ last = Idle
    /\ phase = "running"
    /\ joinWin[w].open
    /\ \E focus \in Focus(Len(joinWin[w].rows)) :
         \E s \in delete_history_entry(Enter, w, focus) :
            Commit("delete_history_entry",
                   [NoArg EXCEPT !.sel = focus, !.win = w,
                                 !.id = IF focus = "" THEN "" ELSE joinWin[w].rows[RowOf(focus)]],
                   s)

\* The "Leave Network" button
LeaveNetwork ==
    /\ last = Idle
    /\ phase = "running"
    /\ \E focus \in Focus(Len(networkList)), answer \in BOOLEAN :
         \E s \in leave_network(Enter, focus, answer) :
            Commit("leave_network", [NoArg EXCEPT !.sel = focus, !.answer = answer], s)

\* The "Show Peers" button
SeePeers ==
    /\ last = Idle
    /\ phase = "running"
    /\ ~peersWin.open
    /\ \E s \in see_peers(Enter) : Commit("see_peers", NoArg, s)

\* The "Refresh Peers" button of the peers window
RefreshPeers ==
    /\ last = Idle
    /\ phase = "running"
    /\ peersWin.open
    /\ \E s \in refresh_peers(Enter) : Commit("refresh_peers", NoArg, s)

\* The "Close" button of the peers window
ClosePeers ==
    /\ last = Idle
    /\ phase = "running"
    /\ peersWin.open
    /\ peersWin' = ClosedWindow
    /\ last' = [Idle EXCEPT !.op = "close_peers_window"]
    /\ UNCHANGED <<phase, file, fmt, netVars, peers, pathsWin>>

\* The "See Paths" button of the peers window (or a double click)
SeePeerPaths ==
    /\ last = Idle
    /\ phase = "running"
    /\ peersWin.open
    /\ ~pathsWin.open
    /\ \E selected \in Focus(Len(peersWin.rows)) :
         \E s \in see_peer_paths(Enter, selected) :
            Commit("see_peer_paths", [NoArg EXCEPT !.sel = selected], s)

\* The "Refresh Paths" button of the paths window
RefreshPaths ==
    /\ last = Idle
    /\ phase = "running"
    /\ pathsWin.open
    /\ \E s \in refresh_paths(Enter, pathsWin.idx) : Commit("refresh_paths", NoArg, s)

\* The "Close" button of the paths window
ClosePaths ==
    /\ last = Idle
    /\ phase = "running"
    /\ pathsWin.open
    /\ pathsWin' = ClosedPaths
    /\ last' = [Idle EXCEPT !.op = "close_paths_window"]
    /\ UNCHANGED <<phase, file, fmt, netVars, peers, peersWin>>

\* The "About" button
About ==
    /\ last = Idle
    /\ phase = "running"
    /\ \E s \in about_window(Enter) : Commit("about_window", NoArg, s)

\* The "Disconnect/Connect Interface" button
ToggleConnection ==
    /\ last = Idle
    /\ phase = "running"
    /\ \E selected \in Focus(Len(networkList)) :
         \E s \in toggleConnectionButton(Enter) :
            Commit("toggleConnectionButton", [NoArg EXCEPT !.sel = selected], s)

\* The service: a network is joined, configured or left behind the program's back.
EnvNetwork ==
    /\ last = Idle
    /\ \E id \in Ids, st \in {"absent", "unconfigured", "configured"} :
         /\ networks[id] # st
         /\ networks' = [networks EXCEPT ![id] = st]
    /\ UNCHANGED <<phase, file, fmt, network_history, networkList, joinWin, peerVars, last>>

\* The service: peers come, go and change places in the list.
EnvPeers ==
    /\ last = Idle
    /\ \E l \in PeerLists :
         /\ l # peers
         /\ peers' = l
    /\ UNCHANGED <<phase, file, fmt, netVars, peersWin, pathsWin, last>>

\* The main window and one join window.
Next ==
    \/ MainLoop
    \/ Start
    \/ Exit
    \/ RefreshNetworks
    \/ OpenJoinWindow(1)
    \/ CloseJoinWindow(1)
    \/ Join(1)
    \/ DeleteHistoryEntry(1)
    \/ LeaveNetwork
    \/ EnvNetwork

Spec == Init /\ [][Next]_vars

\* The history file and the join windows: every file the program may find,
\* several join windows at once.
InitHistory ==
    /\ Off
    /\ file \in InitialFiles
    /\ fmt \in Formats
    /\ networks \in [Ids -> {"absent", "unconfigured", "configured"}]
    /\ peers = <<>>

NextHistory ==
    \/ MainLoop
    \/ Start
    \/ Exit
    \/ \E w \in Wins : OpenJoinWindow(w)
    \/ \E w \in Wins : CloseJoinWindow(w)
    \/ \E w \in Wins : DeleteHistoryEntry(w)

SpecHistory == InitHistory /\ [][NextHistory]_vars

\* load_network_history, called on its own
LoadNetworkHistory ==
    /\ last = Idle
    /\ phase \in {"off", "loaded"}
    /\ LET l == load_network_history(file)
       IN /\ file' = l.file
          /\ network_history' = l.history
    /\ phase' = "loaded"
    /\ last' = [Idle EXCEPT !.op = "load_network_history"]
    /\ UNCHANGED <<fmt, networks, networkList, joinWin, peerVars>>

\* save_network_history (lines 303-308)
SaveNetworkHistory ==
    /\ last = Idle
    /\ phase = "loaded"
    /\ file' = [exists |-> TRUE, text |-> json_dump(network_history)]
    /\ last' = [Idle EXCEPT !.op = "save_network_history"]
    /\ UNCHANGED <<phase, fmt, netVars, peerVars>>

\* The history store alone: load and save.
InitStore ==
    /\ Off
    /\ file \in StoreFiles
    /\ fmt = [nwid |-> TRUE, noname |-> "empty"]
    /\ networks = [id \in Ids |-> "absent"]
    /\ peers = <<>>

NextStore ==
    \/ MainLoop
    \/ LoadNetworkHistory
    \/ SaveNetworkHistory

SpecStore == InitStore /\ [][NextStore]_vars

\* The peers window and its paths window, the About and the interface buttons.
InitPeers ==
    /\ Off
    /\ file = [exists |-> FALSE, text |-> <<>>]
    /\ fmt = [nwid |-> TRUE, noname |-> "empty"]
    /\ networks \in {[id \in Ids |-> "absent"],
                     [id \in Ids |-> IF id = IdSeq[1] THEN "configured" ELSE "absent"]}
    /\ peers \in PeerLists

NextPeers ==
    \/ MainLoop
    \/ Start
    \/ Exit
    \/ SeePeers
    \/ RefreshPeers
    \/ ClosePeers
    \/ SeePeerPaths
    \/ RefreshPaths
    \/ ClosePaths
    \/ About
    \/ ToggleConnection
    \/ EnvPeers

SpecPeers == InitPeers /\ [][NextPeers]_vars

-----------------------------------------------------------------------------
(* What the claims speak about *)

\* The positions of the log l where command c ran.
Runs(l, c) == {i \in DOMAIN l.cmds : l.cmds[i][1] = c}

Shown(l, m) == \E i \in DOMAIN l.msgs : l.msgs[i] = m

\* The first query of the handler decoded its output.
FirstQueryOk(l) == l.cmds # <<>> /\ l.cmds[1] = <<"listnetworks", "", "ok">>

\* The name the service prints for a joined network, None (null) included;
\* "" stands for the missing field as well.
LiveNameIn(nets, id) ==
    IF "name" \in DOMAIN NetworkRecord(id, nets[id])
      THEN NetworkRecord(id, nets[id])["name"]
      ELSE ""

LiveName(id) == LiveNameIn(networks, id)

\* The keys of a history and their join dates.
KeysAndDates(h) == [k \in DOMAIN h |-> h[k].join_date]

-----------------------------------------------------------------------------
(* C1..C10 *)

\* C1: join(networkId), when the fresh list-networks result already contains
\* a network with that id, does not run the join command, tells the user he
\* is already a member, and leaves the history mapping as it was.
C1_JoinWhenMember ==
    [][ ( /\ last'.op = "join_network"
          /\ FirstQueryOk(last')
          /\ last'.arg.id \in Ids
          /\ networks[last'.arg.id] # "absent" )
        => ( /\ Runs(last', "join") = {}
             /\ Shown(last', AlreadyMember)
             /\ network_history' = network_history ) ]_vars

\* C2: the history is persisted: when the program leaves through its exit
\* handler, the file on disk holds the keys and join dates of the in-memory
\* history, so that the next load() gives them back.
C2_HistoryPersisted ==
    [][ (phase = "running" /\ phase' = "off")
        => KeysAndDates(load_network_history(file').history)
             = KeysAndDates(network_history) ]_vars

\* C3: a query that exits with code 0 and prints nothing, or nothing that
\* decodes as JSON, gives its caller an empty collection: no exception
\* leaves get_networks_info or get_peers_info.
C3_LenientReads ==
    (\E i \in DOMAIN last.cmds :
        /\ last.cmds[i][1] \in {"listnetworks", "peers"}
        /\ last.cmds[i][3] = "undecodable")
    => last.exc = "none"

\* C4: refresh_networks shows one row for every record of list-networks, with
\* the placeholder "Unknown Name" for a record whose name is empty or absent
\* and with the record's name unchanged otherwise.
C4_DisplayNames ==
    (last.op = "refresh_networks" /\ FirstQueryOk(last))
    => LET P == Payload(networks, 1)
       IN /\ Len(networkList) = Len(P)
          /\ \A i \in 1..Len(P) :
               /\ i \in DOMAIN networkList
               /\ networkList[i][1] = P[i]["id"]
               /\ networkList[i][2] # ""
               /\ networkList[i][2] =
                    IF "name" \notin DOMAIN P[i] \/ P[i]["name"] \in {"", None}
                      THEN UnknownName
                      ELSE P[i]["name"]

\* C5: the identifier is one key whatever the field is called: with records
\* that carry it under `id`, with or without an `nwid` field too, the
\* membership check, the name lookup and the refresh of the history names
\* complete (no KeyError), and a refresh that decoded both its queries
\* leaves every history entry of a listed network with the listed name.
C5_IdIsTheKey ==
    (fmt.noname # "absent" /\ last.op \in {"__init__", "refresh_networks", "join_network"})
    => /\ last.exc # "KeyError"
       /\ ( /\ last.op = "refresh_networks"
            /\ last.cmds = <<<<"listnetworks", "", "ok">>, <<"listnetworks", "", "ok">>>> )
          => \A k \in DOMAIN network_history :
                networks[k] # "absent" => network_history[k].name = LiveName(k)

\* C6: leave_network with a row selected and the prompt confirmed runs the
\* leave command once, for the network of that row, says "Error" if it
\* exits non-zero and that the network was left otherwise, and then
\* refreshes the list; with no row selected or the prompt declined it runs
\* no leave command.
C6_Leave ==
    [][ last'.op = "leave_network"
        => IF last'.arg.sel # "" /\ last'.arg.answer
             THEN /\ Cardinality(Runs(last', "leave")) = 1
                  /\ \A i \in Runs(last', "leave") :
                       /\ last'.cmds[i][2] = networkList[RowOf(last'.arg.sel)][1]
                       /\ IF last'.cmds[i][3] = "ok"
                            THEN Shown(last', LeftMsg)
                            ELSE Shown(last', LeaveError)
                       /\ \E j \in Runs(last', "listnetworks") : j > i
             ELSE Runs(last', "leave") = {} ]_vars

\* C7: deleteEntry(id) for an id that is no key of the history (no row
\* selected included) leaves the mapping as it was and raises nothing; for a
\* key it removes that key and no other.
C7_DeleteEntry ==
    [][ last'.op = "delete_history_entry"
        => IF last'.arg.id \in DOMAIN network_history
             THEN network_history' =
                    [k \in DOMAIN network_history \ {last'.arg.id} |-> network_history[k]]
             ELSE network_history' = network_history /\ last'.exc = "none" ]_vars

\* The file holds no JSON mapping: it is absent, empty or malformed.
NoMapping(f) ==
    \/ ~f.exists
    \/ f.text \in {<<>>, <<B("{"), Q(IdSeq[1])>>, <<B("oops")>>}

C9_OnlyDeletionRemoves ==
    [][ (phase = "running" /\ phase' = "running")
        => \A k \in DOMAIN network_history :
             /\ k \notin DOMAIN network_history'
                  => (last'.op = "delete_history_entry" /\ last'.arg.id = k)
             /\ (k \in DOMAIN network_history' /\ networks'[k] = "absent")
                  => network_history'[k] = network_history[k]
             /\ ( /\ last'.op \in {"refresh_networks", "leave_network"}
                  /\ \A i \in Runs(last', "listnetworks") : last'.cmds[i][3] # "ok" )
                  => (k \in DOMAIN network_history' /\ network_history'[k] = network_history[k]) ]_vars

C9_Witness ==
    /\ last.op = "refresh_networks"
    /\ last.exc = "none"
    /\ last.cmds = <<<<"listnetworks", "", "ok">>, <<"listnetworks", "", "ok">>>>
    /\ \E k \in DOMAIN network_history :
         /\ networks[k] = "absent"
         /\ network_history[k].name = NameOf(k)
    /\ \E k \in Ids : networks[k] # "absent"

\* C10: the refresh of the names changes names only: a refresh neither adds
\* nor removes a key nor changes a join date, and a join whose recording is
\* followed by a refresh that listed the network leaves the new entry with
\* the listed name and the join date just recorded.
C10_RefreshNamesOnly ==
    [][ /\ last'.op = "refresh_networks"
          => /\ DOMAIN network_history' = DOMAIN network_history
             /\ \A k \in DOMAIN network_history :
                  network_history'[k].join_date = network_history[k].join_date
        /\ ( /\ last'.op = "join_network"
             /\ last'.exc = "none"
             /\ Shown(last', JoinedMsg)
             /\ last'.cmds[Len(last'.cmds)] = <<"listnetworks", "", "ok">> )
          => /\ DOMAIN network_history' = DOMAIN network_history \cup {last'.arg.id}
             /\ network_history'[last'.arg.id].join_date = last'.arg.date
             /\ network_history'[last'.arg.id].name = LiveNameIn(networks', last'.arg.id) ]_vars

C10_Witness ==
    /\ last.op = "join_network"
    /\ last.exc = "none"
    /\ Shown(last, JoinedMsg)
    /\ last.cmds[Len(last.cmds)] = <<"listnetworks", "", "ok">>
    /\ last.cmds[3] = <<"listnetworks", "", "nonzero">>
    /\ network_history[last.arg.id] = [name |-> NameOf(last.arg.id), join_date |-> last.arg.date]

-----------------------------------------------------------------------------
(* C11..C20 *)

\* The join command of the handler exited with code 0 / with another code.
JoinedOk(l) == \E i \in Runs(l, "join") : l.cmds[i][3] = "ok"
JoinRefused(l) == \E i \in Runs(l, "join") : l.cmds[i][3] = "nonzero"

\* C11: a join whose membership check found the id absent and whose join
\* command exited with code 0 leaves the history with the keys it had and
\* that id, the entry of the id carrying the date of the join; the entry is
\* there whatever becomes of the refresh that follows, which is started; the
\* other entries keep their join date and change only by the names the
\* refresh lists.
C11_JoinSuccess ==
    [][ ( /\ last'.op = "join_network"
          /\ FirstQueryOk(last')
          /\ last'.arg.id \in Ids
          /\ networks[last'.arg.id] = "absent"
          /\ JoinedOk(last') )
        => ( /\ DOMAIN network_history' = DOMAIN network_history \cup {last'.arg.id}
             /\ network_history'[last'.arg.id].join_date = last'.arg.date
             /\ Shown(last', JoinedMsg)
             /\ Len(last'.cmds) >= 4
             /\ \A k \in DOMAIN network_history \ {last'.arg.id} :
                  /\ network_history'[k].join_date = network_history[k].join_date
                  /\ \/ network_history'[k].name = network_history[k].name
                     \/ network_history'[k].name = LiveNameIn(networks', k) ) ]_vars

\* C12: a join whose join command exits with a non-zero code shows "Invalid
\* network ID", runs the join command once, leaves the history and the
\* network table as they were, queries nothing after the join command and
\* raises nothing.
C12_JoinFailure ==
    [][ (last'.op = "join_network" /\ JoinRefused(last'))
        => ( /\ Shown(last', InvalidId)
             /\ ~Shown(last', JoinedMsg)
             /\ Cardinality(Runs(last', "join")) = 1
             /\ \A i \in Runs(last', "join") : i = Len(last'.cmds)
             /\ network_history' = network_history
             /\ networkList' = networkList
             /\ networks' = networks
             /\ joinWin' = joinWin
             /\ last'.exc = "none" ) ]_vars

C12_Witness ==
    /\ last.op = "join_network"
    /\ JoinRefused(last)
    /\ last.arg.id \in Ids
    /\ last.arg.id \notin DOMAIN network_history
    /\ Shown(last, InvalidId)

\* C13: no outcome of the list-networks, peers and status commands ends the
\* process: the construction of the main window always completes, and a
\* handler runs the peers or the status command at most once for each
\* query it makes (see_peer_paths makes two).
C13_NoCrash ==
    /\ phase # "crashed"
    /\ last.op \in {"see_peers", "refresh_peers", "refresh_paths", "about_window"}
         => Len(last.cmds) <= 1
    /\ last.op = "see_peer_paths" => Len(last.cmds) <= 2

\* C16: the interface button asks for the state of the interface of the
\* selected network and then runs the command that sets the inverse state:
\* it runs two commands at least.
C16_ToggleInterface ==
    [][ (last'.op = "toggleConnectionButton" /\ last'.arg.sel # "")
        => Len(last'.cmds) >= 2 ]_vars

\* C17: after a query of the peers that decoded, the peers list shows one
\* row for each record, in the order of the records, with the record's
\* address, role and latency, and as version "-" exactly when the record's
\* version is "-1.-1.-1" and the record's version otherwise.
C17_PeerVersion ==
    (last.op \in {"see_peers", "refresh_peers"} /\ last.cmds = <<<<"peers", "", "ok">>>>)
    => /\ Len(peersWin.rows) = Len(peers)
       /\ \A i \in 1..Len(peers) :
            LET p == PeerPool[peers[i]]
                r == peersWin.rows[i]
            IN /\ r[1] = p.address
               /\ r[3] = p.role
               /\ r[4] = p.latency
               /\ (r[2] = "-") <=> (p.version = "-1.-1.-1")
               /\ p.version # "-1.-1.-1" => r[2] = p.version

C17_Witness ==
    /\ last.op = "refresh_peers"
    /\ last.cmds = <<<<"peers", "", "ok">>>>
    /\ Len(peersWin.rows) = 2
    /\ peersWin.rows[1][2] = "1.12.2"
    /\ peersWin.rows[2][2] = "-"

\* The paths of the peer with address a in the list l of the service.
PathsOf(l, a) ==
    IF \E i \in DOMAIN l : PeerPool[l[i]].address = a
      THEN PeerPool[CHOOSE x \in {l[i] : i \in DOMAIN l} : PeerPool[x].address = a].paths
      ELSE <<>>

\* C20: "Refresh Paths" in the paths window opened for the peer with address
\* A, when the query of the peers decodes, shows the paths of the peer with
\* address A in the fresh list, nothing if A is no longer listed, and raises
\* nothing, wherever the peer now stands in the list.
C20_PathsOfThePeer ==
    [][ (last'.op = "refresh_paths" /\ last'.cmds = <<<<"peers", "", "ok">>>>)
        => /\ last'.exc = "none"
           /\ pathsWin'.rows = PathsOf(peers, pathsWin.peerId) ]_vars

\* C14: a selection-driven handler started with nothing selected returns
\* without raising, runs no join or leave command and leaves the history
\* as it was.
C14_NothingSelected ==
    [][ ( /\ last'.op \in {"leave_network", "delete_history_entry"}
          /\ last'.arg.sel = "" )
        => ( /\ last'.exc = "none"
             /\ Runs(last', "leave") = {}
             /\ Runs(last', "join") = {}
             /\ network_history' = network_history ) ]_vars

\* C15: the history store round trip: what save writes of the loaded
\* mapping loads back as the same mapping, a second save writes the same
\* text again, and a load that follows leaves the mapping as it was.
C15_RoundTrip ==
    [][ /\ last'.op = "save_network_history"
          => /\ load_network_history(file').history = network_history
             /\ json_dump(load_network_history(file').history) = file'.text
             /\ network_history' = network_history
        /\ (last'.op = "load_network_history" /\ phase = "loaded")
          => network_history' = network_history ]_vars

C15_Witness ==
    /\ last.op = "save_network_history"
    /\ DOMAIN network_history = Ids
    /\ network_history[IdSeq[1]] = [name |-> None, join_date |-> OldDate]
    /\ network_history[IdSeq[2]].name = ""
    /\ file.text = json_dump(network_history)

\* C18: every entry of the history has a name and a join date that are
\* strings, never None.
C18_NamesAreStrings ==
    \A k \in DOMAIN network_history :
        /\ network_history[k].name # None
        /\ network_history[k].join_date # None

\* C19: a join whose membership check got a non-zero exit from its query
\* does not run the join command and records nothing.
C19_CheckedBeforeJoin ==
    [][ ( /\ last'.op = "join_network"
          /\ last'.cmds # <<>>
          /\ last'.cmds[1] = <<"listnetworks", "", "nonzero">> )
        => ( /\ Runs(last', "join") = {}
             /\ network_history' = network_history ) ]_vars

====
